---- MODULE Spec2Model ----
(***************************************************************************)
(* SkillSpire server (src/index.js): the four collections of the document  *)
(* store and the route handlers that write them.  A handler suspends at    *)
(* every store call (await), so each store call is one atomic step and the *)
(* steps of concurrent requests interleave freely.                         *)
(***************************************************************************)
EXTENDS Integers, Sequences, FiniteSets, TLC

\* ------------------------------------------------------------- bounds
MaxReq == 5            \* requests issued in one behaviour
MaxInflight == 2       \* requests that can be in progress at once
MaxConcReq == 3        \* the same, where the lifecycle or the register routes run concurrently
MaxAccessReq == 2      \* the same, where the routes behind verifyToken run

\* ------------------------------------------------------------- values
Admin == "admin@x"
Creator == "creator@x"
Member == "user@x"
Emails == {Admin, Creator, Member}

Slots == 1..MaxInflight
UnknownId == 0         \* a well-formed ObjectId that names no contest
MissingId == -1        \* contestId absent from the request body

NoBody == [none |-> TRUE]
HasAmount == [amount |-> 10]
Statuses == {"pending", "confirmed", "rejected", "ended"}

\* The request bodies a creator sends to PUT /contests/:id: $set takes every
\* field of the body, whatever its name.
PutBodies ==
    { [content |-> 1], [participants |-> 1], [status |-> "ended"],
      [creatorEmail |-> Member] }

\* JavaScript's  a || b  on strings: the empty string is falsy.
OrElse(a, b) == IF a = "" THEN b ELSE a

VARIABLES
    users,          \* usersCollection: sequence of user documents
    contests,       \* contestsCollection: contest id -> document
    nextContestId,  \* the next contest id the store generates
    submissions,    \* submissionsCollection: sequence, index = submission id
    payments,       \* paymentsCollection: sequence of payment documents
    reqs,           \* per slot: the request being handled, its position, its answer
    budget,         \* number of requests the clients have yet to issue
    okRegs,         \* history: <<contestId, email>> of register calls answered success
    okWins,         \* history: declareWinner calls answered success
    scen,           \* history: progress of the create/confirm/register/submit/declare scenario
    lostIncs,       \* history: <<contestId, email>> of register calls whose $inc failed
    tokens,         \* the signed tokens POST /jwt has issued (the clients' cookies)
    listing         \* the body of the last answer of a read route

vars == <<users, contests, nextContestId, submissions, payments, reqs, budget,
          okRegs, okWins, scen, lostIncs, tokens, listing>>
store == <<users, contests, nextContestId, submissions, payments>>

\* ------------------------------------------------------------- store helpers
\* findOne({email}): the first document with that email, 0 when none.
FindUser(email) ==
    IF \E i \in 1..Len(users) : users[i].email = email
    THEN CHOOSE i \in 1..Len(users) :
            /\ users[i].email = email
            /\ \A j \in 1..(i-1) : users[j].email # email
    ELSE 0

\* updateOne({email}, {$addToSet: {field: v}}) on usersCollection.
AddToSetUser(email, field, v) ==
    LET i == FindUser(email) IN
    IF i = 0 THEN users
    ELSE [users EXCEPT ![i][field] = @ \cup {v}]

\* updateOne({_id}, {$set: body}) on a document: the body's fields replace the
\* document's.
ApplySet(doc, body) ==
    [f \in DOMAIN doc |-> IF f \in DOMAIN body THEN body[f] ELSE doc[f]]

\* deleteOne({_id}) on contestsCollection.
RemoveContest(id) ==
    [c \in (DOMAIN contests) \ {id} |-> contests[c]]

\* Mutant of AlreadyPaid: the payer's email is taken from the request body, which
\* carries none, instead of the token.
AlreadyPaidBodyEmail(cid, email) ==
    \E i \in 1..Len(payments) :
        payments[i].contestId = cid /\ payments[i].email = ""

\* Mutant of AlreadyPaid: the duplicate check reads the caller's
\* participatedContests instead of the payments.
AlreadyPaidTracked(cid, email) ==
    /\ FindUser(email) # 0
    /\ cid \in users[FindUser(email)].participatedContests

\* findOne({contestId, email}) on paymentsCollection.
AlreadyPaid(cid, email) ==
    \E i \in 1..Len(payments) :
        payments[i].contestId = cid /\ payments[i].email = email

\* Mutant of AlreadyWinner: only the newest submission is looked at.
AlreadyWinnerNewestOnly(cid) ==
    /\ submissions # <<>>
    /\ submissions[Len(submissions)].contestId = cid
    /\ submissions[Len(submissions)].isWinner

\* Mutant of AlreadyWinner: the query compares isWinner with the string "true",
\* which no stored flag equals, so a declared winner is never found.
AlreadyWinnerStringFlag(cid) ==
    \E i \in 1..Len(submissions) :
        submissions[i].contestId = cid /\ FALSE

\* findOne({contestId, isWinner: true}) on submissionsCollection.
AlreadyWinner(cid) ==
    \E i \in 1..Len(submissions) :
        submissions[i].contestId = cid /\ submissions[i].isWinner

\* Mutant of WinnerSnapshot: the user's fields are copied without the defaults.
WinnerSnapshotNoDefault(wu) ==
    IF wu = {} THEN [name |-> "", email |-> "", photo |-> ""]
    ELSE LET u == CHOOSE x \in wu : TRUE IN
         [name |-> u.name, email |-> u.email, photo |-> u.photo]

\* The winner summary stored on the contest.
WinnerSnapshot(wu) ==
    IF wu = {} THEN [name |-> "Winner", email |-> "", photo |-> ""]
    ELSE LET u == CHOOSE x \in wu : TRUE IN
         [name |-> OrElse(u.name, "Winner"), email |-> u.email,
          photo |-> OrElse(u.photo, "")]

\* ------------------------------------------------------------- requests
Idle ==
    [op |-> "none", pc |-> "idle", caller |-> "", cid |-> 0, sid |-> 0,
     body |-> NoBody, sub |-> {}, wu |-> {}, resp |-> "", ovl |-> {}, p0 |-> 0,
     cookie |-> "none"]

\* A request that passed verifyToken: req.user.email is the caller, the cookie
\* it came with was a valid token.
Authed(caller) == [Idle EXCEPT !.caller = caller, !.cookie = "valid"]

InFlight(r) == reqs[r].pc \notin {"idle", "done"}

\* Ids a client can name: those the store has generated, and an unknown one.
KnownContestIds == 1..(nextContestId - 1)
ContestArgs == KnownContestIds \cup {UnknownId}
SubArgs == 0..Len(submissions)

\* A new request takes the lowest slot that holds no request in progress.
CanStart(r) ==
    /\ ~InFlight(r)
    /\ \A q \in 1..(r-1) : InFlight(q)
    /\ budget > 0

\* A request arrives in slot r: `rec` is the slot's new content.  For a register
\* request, ovl records the slots whose register request is in progress at
\* some moment of this one.
Registering(q) == InFlight(q) /\ reqs[q].op = "register"
StartReq(r, rec) ==
    /\ budget' = budget - 1
    /\ reqs' = [q \in Slots |->
                 IF q = r
                 THEN [rec EXCEPT !.ovl = IF rec.op = "register"
                                          THEN {s \in Slots \ {r} : Registering(s)}
                                          ELSE {}]
                 ELSE IF Registering(q) /\ rec.op = "register"
                 THEN [reqs[q] EXCEPT !.ovl = @ \cup {r}]
                 ELSE [reqs[q] EXCEPT !.ovl = @ \ {r}]]

\* The request of slot r moves on: to position pc, or answers resp.
Goto(r, pc) == reqs' = [reqs EXCEPT ![r].pc = pc]
Answer(r, resp) ==
    reqs' = [reqs EXCEPT ![r].pc = "done", ![r].resp = resp,
                         ![r].body = IF reqs[r].op = "register" THEN @ ELSE NoBody,
                         ![r].sub = {}, ![r].wu = {}]

\* ------------------------------------------------------------- history
\* The scenario: Creator creates C, Admin confirms C, U registers for C,
\* U submits S for C, Creator declares S winner; nothing else in between.
ScenOff == [k |-> -1, c |-> 0, u |-> "", s |-> 0]
ScenStep(op, caller, cid, sid, body, resp) ==
    IF scen.k = 0 /\ op = "create" /\ resp = "ok"
    THEN [scen EXCEPT !.k = 1, !.c = nextContestId]
    ELSE IF scen.k = 1 /\ op = "adminStatus" /\ resp = "ok" /\ cid = scen.c
            /\ body = [status |-> "confirmed"]
    THEN [scen EXCEPT !.k = 2]
    ELSE IF scen.k = 2 /\ op = "register" /\ resp = "ok" /\ cid = scen.c
    THEN [scen EXCEPT !.k = 3, !.u = caller]
    ELSE IF scen.k = 3 /\ op = "submit" /\ resp = "ok" /\ cid = scen.c
            /\ caller = scen.u
    THEN [scen EXCEPT !.k = 4, !.s = Len(submissions) + 1]
    ELSE IF scen.k = 4 /\ op = "declareWinner" /\ resp = "ok" /\ sid = scen.s
    THEN [scen EXCEPT !.k = 5]
    ELSE ScenOff

\* What the history variables record when a request is answered; the routes
\* that use it issue no token and answer no list.
Record(op, caller, cid, sid, body, resp) ==
    /\ okRegs' = IF op = "register" /\ resp = "ok"
                 THEN okRegs \cup {<<cid, caller>>} ELSE okRegs
    /\ okWins' = IF op = "declareWinner" /\ resp = "ok"
                 THEN okWins \cup {[sid |-> sid, caller |-> caller]} ELSE okWins
    /\ scen' = ScenStep(op, caller, cid, sid, body, resp)
    /\ UNCHANGED <<lostIncs, tokens, listing>>
RecordReq(r, resp) ==
    Record(reqs[r].op, reqs[r].caller, reqs[r].cid, reqs[r].sid, reqs[r].body, resp)
NoRecord == UNCHANGED <<okRegs, okWins, scen, lostIncs, tokens, listing>>

\* ------------------------------------------------------------- Init
\* The three principals have logged in (POST /jwt created their documents, with
\* the name and photo each login carried, "" when it carried none) and one of
\* them was given the admin role and logged in again; nothing else is stored.
NewUser(email, name, photo, role) ==
    [email |-> email, name |-> name, photo |-> photo, role |-> role,
     participatedContests |-> {}, wonContests |-> {}]

\* jwt.sign({email, role}): the token carries the role the user document had
\* when it was issued.
SignToken(user) == [email |-> user.email, role |-> user.role]
NoListing == [route |-> "none", caller |-> "", query |-> <<>>, out |-> <<>>]

InitWith(n) ==
    /\ users = << NewUser(Admin, "Ada", "ada.png", "admin"),
                  NewUser(Creator, "Cy", "", "user"),
                  NewUser(Member, "", "uma.png", "user") >>
    /\ contests = <<>>
    /\ nextContestId = 1
    /\ submissions = <<>>
    /\ payments = <<>>
    /\ reqs = [r \in Slots |-> Idle]
    /\ budget = n
    /\ okRegs = {}
    /\ okWins = {}
    /\ lostIncs = {}
    /\ scen = [k |-> 0, c |-> 0, u |-> "", s |-> 0]
    /\ tokens = {SignToken(users[i]) : i \in 1..Len(users)}
    /\ listing = NoListing

Init == InitWith(MaxReq)
InitConc == InitWith(MaxConcReq)

\* A later state of the same store: Creator has created contest 1 and Member
\* contest 2 and edited its content, the admin has confirmed contest 1, Member
\* has registered for contest 1, Member and Admin have each submitted an entry
\* to it.
SeededWith(n) ==
    /\ users = << NewUser(Admin, "Ada", "ada.png", "admin"),
                  NewUser(Creator, "Cy", "", "user"),
                  [NewUser(Member, "", "uma.png", "user")
                     EXCEPT !.participatedContests = {1}] >>
    /\ contests = (1 :> [content |-> 0, winner |-> {}, creatorEmail |-> Creator,
                         participants |-> 1, status |-> "confirmed"])
                  @@ (2 :> [content |-> 1, winner |-> {}, creatorEmail |-> Member,
                            participants |-> 0, status |-> "pending"])
    /\ nextContestId = 3
    /\ submissions = << [contestId |-> 1, userEmail |-> Member, isWinner |-> FALSE],
                        [contestId |-> 1, userEmail |-> Admin, isWinner |-> FALSE] >>
    /\ payments = << [contestId |-> 1, email |-> Member, amount |-> 10] >>
    /\ reqs = [r \in Slots |-> Idle]
    /\ budget = n
    /\ okRegs = {<<1, Member>>}
    /\ okWins = {}
    /\ lostIncs = {}
    /\ scen = ScenOff
    /\ tokens = {SignToken(users[i]) : i \in 1..Len(users)}
    /\ listing = NoListing

InitSeeded == SeededWith(MaxConcReq)
InitAccess == SeededWith(MaxAccessReq)

\* ------------------------------------------------------------- POST /contests
\* One store call: insertOne of the body with creatorEmail, participants and
\* status overwritten.
BlankContest ==
    [content |-> 0, winner |-> {}, creatorEmail |-> "", participants |-> 0,
     status |-> ""]
CreateBodies == { [content |-> 0] }
\* Bodies that also name the fields the handler sets itself.
ForcedFieldBodies ==
    { [content |-> 0],
      [content |-> 2, status |-> "confirmed", participants |-> 5,
       creatorEmail |-> Member],
      [content |-> 3, status |-> "ended", creatorEmail |-> Admin] }

\* Mutant of NewContest: the body is spread after the handler's own fields.
NewContestBodyLast(caller, body) ==
    ApplySet(ApplySet(BlankContest,
                      [creatorEmail |-> caller, participants |-> 0,
                       status |-> "pending"]),
             body)

NewContest(caller, body) ==
    ApplySet(ApplySet(BlankContest, body),
             [creatorEmail |-> caller, participants |-> 0, status |-> "pending"])

CreateContestFrom(r, bodies) ==
    \E caller \in Emails, body \in bodies :
        /\ CanStart(r)
        /\ contests' = contests @@ (nextContestId :> NewContest(caller, body))
        /\ nextContestId' = nextContestId + 1
        /\ StartReq(r, [Authed(caller) EXCEPT !.op = "create",
                                    !.pc = "done", !.resp = "ok"])
        /\ Record("create", caller, nextContestId, 0, NoBody, "ok")
        /\ UNCHANGED <<users, submissions, payments>>

CreateContest(r) == CreateContestFrom(r, CreateBodies)
CreateContestForced(r) == CreateContestFrom(r, ForcedFieldBodies)

\* ------------------------------------------------------------- PUT /contests/:id
\* First store call: findOne the contest; 404 when absent, 403 unless the
\* caller is its creator and it is pending.
PutFindResp(cid, caller) ==
    IF cid \notin DOMAIN contests THEN "not_found"
    ELSE IF contests[cid].creatorEmail # caller \/ contests[cid].status # "pending"
    THEN "forbidden"
    ELSE ""

PutFind(r) ==
    \E caller \in Emails, cid \in ContestArgs, body \in PutBodies :
        LET resp == PutFindResp(cid, caller) IN
        /\ CanStart(r)
        /\ StartReq(r, [Authed(caller) EXCEPT !.op = "put", !.cid = cid,
                                    !.body = IF resp = "" THEN body ELSE NoBody,
                                    !.pc = IF resp = "" THEN "put_update" ELSE "done",
                                    !.resp = resp])
        /\ IF resp = "" THEN NoRecord ELSE Record("put", caller, cid, 0, body, resp)
        /\ UNCHANGED store

\* Second store call: updateOne({_id}, {$set: {...body, updatedAt}}); it matches
\* nothing when the contest is gone.
PutUpdate(r) ==
    /\ reqs[r].pc = "put_update"
    /\ contests' = IF reqs[r].cid \in DOMAIN contests
                   THEN [contests EXCEPT ![reqs[r].cid] = ApplySet(@, reqs[r].body)]
                   ELSE contests
    /\ Answer(r, "ok")
    /\ RecordReq(r, "ok")
    /\ UNCHANGED <<users, nextContestId, submissions, payments, budget>>

\* ------------------------------------------------------------- DELETE /contests/:id
DeleteFind(r) ==
    \E caller \in Emails, cid \in ContestArgs :
        LET resp == PutFindResp(cid, caller) IN
        /\ CanStart(r)
        /\ StartReq(r, [Authed(caller) EXCEPT !.op = "delete", !.cid = cid,
                                    !.pc = IF resp = "" THEN "delete_one" ELSE "done",
                                    !.resp = resp])
        /\ IF resp = "" THEN NoRecord ELSE Record("delete", caller, cid, 0, NoBody, resp)
        /\ UNCHANGED store

DeleteOne(r) ==
    /\ reqs[r].pc = "delete_one"
    /\ contests' = RemoveContest(reqs[r].cid)
    /\ Answer(r, "ok")
    /\ RecordReq(r, "ok")
    /\ UNCHANGED <<users, nextContestId, submissions, payments, budget>>

\* ------------------------------------------------------------- verifyAdmin
\* Mutant of IsAdmin: any caller who has a user document passes.
IsAdminAnyUser(caller) == FindUser(caller) # 0

\* Mutant of IsAdmin: the role is taken from the caller's token, not from the
\* store.
IsAdminByToken(caller) ==
    \E t \in tokens : t.email = caller /\ t.role = "admin"

\* The middleware's store call: findOne the caller's user document.
IsAdmin(caller) ==
    LET i == FindUser(caller) IN i # 0 /\ users[i].role = "admin"

\* ------------------------------------------------------------- PATCH /admin/contests/:id/status
AdminStatusResp(caller, status) ==
    IF ~IsAdmin(caller) THEN "forbidden"
    ELSE IF status \notin {"confirmed", "rejected"} THEN "invalid_status"
    ELSE ""

AdminStatusVerify(r) ==
    \E caller \in Emails, cid \in ContestArgs, status \in Statuses :
        LET resp == AdminStatusResp(caller, status) IN
        /\ CanStart(r)
        /\ StartReq(r, [Authed(caller) EXCEPT !.op = "adminStatus",
                                    !.cid = cid,
                                    !.body = IF resp = "" THEN [status |-> status]
                                             ELSE NoBody,
                                    !.pc = IF resp = "" THEN "status_update" ELSE "done",
                                    !.resp = resp])
        /\ IF resp = "" THEN NoRecord
           ELSE Record("adminStatus", caller, cid, 0, [status |-> status], resp)
        /\ UNCHANGED store

AdminStatusUpdate(r) ==
    /\ reqs[r].pc = "status_update"
    /\ contests' = IF reqs[r].cid \in DOMAIN contests
                   THEN [contests EXCEPT ![reqs[r].cid] = ApplySet(@, reqs[r].body)]
                   ELSE contests
    /\ Answer(r, "ok")
    /\ RecordReq(r, "ok")
    /\ UNCHANGED <<users, nextContestId, submissions, payments, budget>>

\* ------------------------------------------------------------- DELETE /admin/contests/:id
AdminDeleteVerify(r) ==
    \E caller \in Emails, cid \in ContestArgs :
        LET resp == IF IsAdmin(caller) THEN "" ELSE "forbidden" IN
        /\ CanStart(r)
        /\ StartReq(r, [Authed(caller) EXCEPT !.op = "adminDelete",
                                    !.cid = cid,
                                    !.pc = IF resp = "" THEN "admin_delete" ELSE "done",
                                    !.resp = resp])
        /\ IF resp = "" THEN NoRecord
           ELSE Record("adminDelete", caller, cid, 0, NoBody, resp)
        /\ UNCHANGED store

AdminDeleteOne(r) ==
    /\ reqs[r].pc = "admin_delete"
    /\ contests' = RemoveContest(reqs[r].cid)
    /\ Answer(r, "ok")
    /\ RecordReq(r, "ok")
    /\ UNCHANGED <<users, nextContestId, submissions, payments, budget>>

\* ------------------------------------------------------------- POST /payments
\* Mutant of RegisterResp: registration is open only for an existing contest
\* whose status is confirmed.
RegisterRespConfirmedOnly(cid, body, caller) ==
    IF cid = MissingId \/ "amount" \notin DOMAIN body THEN "missing_data"
    ELSE IF cid \notin DOMAIN contests THEN "not_found"
    ELSE IF contests[cid].status # "confirmed" THEN "closed"
    ELSE IF AlreadyPaid(cid, caller) THEN "already_registered"
    ELSE ""

\* Validation, then the first store call: findOne a payment of this contest by
\* this caller.
RegisterResp(cid, body, caller) ==
    IF cid = MissingId \/ "amount" \notin DOMAIN body THEN "missing_data"
    ELSE IF AlreadyPaid(cid, caller) THEN "already_registered"
    ELSE ""

RegisterFind(r) ==
    \E caller \in Emails, cid \in ContestArgs \cup {MissingId},
       body \in {HasAmount, NoBody} :
        LET resp == RegisterResp(cid, body, caller) IN
        /\ CanStart(r)
        /\ StartReq(r, [Authed(caller) EXCEPT !.op = "register", !.cid = cid,
                                    !.body = body,
                                    !.p0 = IF cid \in DOMAIN contests
                                           THEN contests[cid].participants ELSE 0,
                                    !.pc = IF resp = "" THEN "reg_insert" ELSE "done",
                                    !.resp = resp])
        /\ IF resp = "" THEN NoRecord ELSE Record("register", caller, cid, 0, body, resp)
        /\ UNCHANGED store

\* Mutant of RegisterInsert: the request moves on without its payment.
RegisterInsertDropped(r) ==
    /\ reqs[r].pc = "reg_insert"
    /\ Goto(r, "reg_inc")
    /\ NoRecord
    /\ UNCHANGED <<store, budget>>

\* insertOne the payment.
RegisterInsert(r) ==
    /\ reqs[r].pc = "reg_insert"
    /\ payments' = Append(payments, [contestId |-> reqs[r].cid,
                                     email |-> reqs[r].caller,
                                     amount |-> reqs[r].body.amount])
    /\ Goto(r, "reg_inc")
    /\ NoRecord
    /\ UNCHANGED <<users, contests, nextContestId, submissions, budget>>

\* updateOne({_id: contestId}, {$inc: {participants: 1}}).
IncParticipants(cid) ==
    IF cid \in DOMAIN contests
    THEN [contests EXCEPT ![cid].participants = @ + 1]
    ELSE contests

RegisterInc(r) ==
    /\ reqs[r].pc = "reg_inc"
    /\ contests' = IncParticipants(reqs[r].cid)
    /\ Goto(r, "reg_track")
    /\ NoRecord
    /\ UNCHANGED <<users, nextContestId, submissions, payments, budget>>

\* updateOne({email}, {$addToSet: {participatedContests: contestId}}).
RegisterTrack(r) ==
    /\ reqs[r].pc = "reg_track"
    /\ users' = AddToSetUser(reqs[r].caller, "participatedContests", reqs[r].cid)
    /\ Answer(r, "ok")
    /\ RecordReq(r, "ok")
    /\ UNCHANGED <<contests, nextContestId, submissions, payments, budget>>

\* ------------------------------------------------------------- POST /submissions
NewSubmission(cid, caller) ==
    [contestId |-> cid, userEmail |-> caller, isWinner |-> FALSE]

Submit(r) ==
    \E caller \in Emails, cid \in ContestArgs \cup {MissingId} :
        LET resp == IF cid = MissingId THEN "missing_data" ELSE "ok" IN
        /\ CanStart(r)
        /\ submissions' = IF resp = "ok"
                          THEN Append(submissions, NewSubmission(cid, caller))
                          ELSE submissions
        /\ StartReq(r, [Authed(caller) EXCEPT !.op = "submit", !.cid = cid,
                                    !.pc = "done", !.resp = resp])
        /\ Record("submit", caller, cid, 0, NoBody, resp)
        /\ UNCHANGED <<users, contests, nextContestId, payments>>

\* ------------------------------------------------------------- PATCH /submissions/:id/winner
\* findOne the submission.
WinnerFindSub(r) ==
    \E caller \in Emails, sid \in SubArgs :
        LET found == sid \in 1..Len(submissions) IN
        /\ CanStart(r)
        /\ StartReq(r, [Authed(caller) EXCEPT !.op = "declareWinner",
                                    !.sid = sid,
                                    !.sub = IF found THEN {submissions[sid]} ELSE {},
                                    !.pc = IF found THEN "win_contest" ELSE "done",
                                    !.resp = IF found THEN "" ELSE "not_found"])
        /\ IF found THEN NoRecord
           ELSE Record("declareWinner", caller, 0, sid, NoBody, "not_found")
        /\ UNCHANGED store

SubOf(r) == CHOOSE x \in reqs[r].sub : TRUE

\* findOne the submission's contest; contest.creatorEmail is read without a
\* null check, so an absent contest ends the handler with a TypeError and no
\* answer is sent.
WinnerContestResp(cid, caller) ==
    IF cid \notin DOMAIN contests THEN "crash"
    ELSE IF contests[cid].creatorEmail # caller THEN "forbidden"
    ELSE ""

WinnerFindContest(r) ==
    LET resp == WinnerContestResp(SubOf(r).contestId, reqs[r].caller) IN
    /\ reqs[r].pc = "win_contest"
    /\ IF resp = "" THEN Goto(r, "win_check") /\ NoRecord
       ELSE Answer(r, resp) /\ RecordReq(r, resp)
    /\ UNCHANGED <<store, budget>>

\* Mutant of WinnerCheck: the flag is written before the check is evaluated.
WinnerCheckAfterMark(r) ==
    /\ reqs[r].pc = "win_check"
    /\ submissions' = [submissions EXCEPT ![reqs[r].sid].isWinner = TRUE]
    /\ IF AlreadyWinner(SubOf(r).contestId)
       THEN Answer(r, "already_declared") /\ RecordReq(r, "already_declared")
       ELSE Goto(r, "win_user") /\ NoRecord
    /\ UNCHANGED <<users, contests, nextContestId, payments, budget>>

\* findOne({contestId, isWinner: true}).
WinnerCheck(r) ==
    /\ reqs[r].pc = "win_check"
    /\ IF AlreadyWinner(SubOf(r).contestId)
       THEN Answer(r, "already_declared") /\ RecordReq(r, "already_declared")
       ELSE Goto(r, "win_mark") /\ NoRecord
    /\ UNCHANGED <<store, budget>>

\* updateOne({_id: submissionId}, {$set: {isWinner: true}}).
WinnerMark(r) ==
    /\ reqs[r].pc = "win_mark"
    /\ submissions' = [submissions EXCEPT ![reqs[r].sid].isWinner = TRUE]
    /\ Goto(r, "win_user")
    /\ NoRecord
    /\ UNCHANGED <<users, contests, nextContestId, payments, budget>>

\* updateOne({email: submission.userEmail}, {$addToSet: {wonContests: contestId}}).
WinnerUser(r) ==
    /\ reqs[r].pc = "win_user"
    /\ users' = AddToSetUser(SubOf(r).userEmail, "wonContests", SubOf(r).contestId)
    /\ Goto(r, "win_read")
    /\ NoRecord
    /\ UNCHANGED <<contests, nextContestId, submissions, payments, budget>>

\* findOne({email: submission.userEmail}): the winner's document.
WinnerRead(r) ==
    LET i == FindUser(SubOf(r).userEmail) IN
    /\ reqs[r].pc = "win_read"
    /\ reqs' = [reqs EXCEPT ![r].pc = "win_close",
                            ![r].wu = IF i = 0 THEN {} ELSE {users[i]}]
    /\ NoRecord
    /\ UNCHANGED <<store, budget>>

\* updateOne({_id: contestId}, {$set: {status: "ended", winner: {...}}}).
CloseContest(cid, wu) ==
    IF cid \in DOMAIN contests
    THEN [contests EXCEPT ![cid] =
            ApplySet(@, [status |-> "ended", winner |-> {WinnerSnapshot(wu)}])]
    ELSE contests

WinnerClose(r) ==
    /\ reqs[r].pc = "win_close"
    /\ contests' = CloseContest(SubOf(r).contestId, reqs[r].wu)
    /\ Answer(r, "ok")
    /\ RecordReq(r, "ok")
    /\ UNCHANGED <<users, nextContestId, submissions, payments, budget>>

\* ------------------------------------------------------------- verifyToken
\* The cookie a request carries: none, a token POST /jwt issued, or a token
\* jwt.verify refuses (expired, or signed with another secret).
NoCookie == [email |-> "", role |-> "", state |-> "none"]
ValidCookies == {[email |-> t.email, role |-> t.role, state |-> "valid"] : t \in tokens}
BadCookies ==
    {[email |-> Admin, role |-> "admin", state |-> "expired"],
     [email |-> Admin, role |-> "admin", state |-> "forged"]}
Cookies == {NoCookie} \cup ValidCookies \cup BadCookies

\* req.user of a request the middleware has refused.
Unauthorized == [email |-> "", role |-> "", ok |-> FALSE]

\* Mutant of VerifyToken: jwt.verify is told to ignore the expiry date.
VerifyTokenIgnoreExpiration(cookie) ==
    IF cookie.state \in {"none", "forged"} THEN Unauthorized
    ELSE [email |-> cookie.email, role |-> cookie.role, ok |-> TRUE]

\* 401 when req.cookies.token is absent or jwt.verify reports an error;
\* otherwise req.user is the decoded {email, role}.
VerifyToken(cookie) ==
    IF cookie = NoCookie THEN Unauthorized
    ELSE IF cookie.state # "valid" THEN Unauthorized
    ELSE [email |-> cookie.email, role |-> cookie.role, ok |-> TRUE]

\* The history variables of the scenario and of the successful calls stay.
HistKeep == UNCHANGED <<okRegs, okWins, scen, lostIncs>>

\* ------------------------------------------------------------- GET /contests
\* No middleware: the route reads only the query string.
NoParam == ""          \* creatorEmail or sort absent from the query
NoSearch == -1         \* search absent from the query
NoLimit == 0           \* limit absent from the query
Queries ==
    [creatorEmail : {NoParam, Creator, Member}, search : {NoSearch, 1},
     sort : {NoParam, "participants"}, limit : {NoLimit, 1}]

\* $match: without creatorEmail the status must be confirmed or ended, with it
\* the creator must be the one named; search filters on the contest's text
\* (content stands for the name and type fields).
Matches(doc, q) ==
    /\ q.creatorEmail = NoParam => doc.status \in {"confirmed", "ended"}
    /\ q.creatorEmail # NoParam => doc.creatorEmail = q.creatorEmail
    /\ q.search # NoSearch => doc.content = q.search

\* $lookup + $addFields + $project: the document with its submissionsCount.
SubmissionsCount(cid) ==
    Cardinality({i \in 1..Len(submissions) : submissions[i].contestId = cid})
ListedContest(cid) ==
    [id |-> cid, status |-> contests[cid].status,
     creatorEmail |-> contests[cid].creatorEmail,
     participants |-> contests[cid].participants,
     content |-> contests[cid].content,
     submissionsCount |-> SubmissionsCount(cid)]

\* The orders the pipeline can return the ids S in: the store's order (by id)
\* without $sort, any order of non-increasing participants with it.
Orders(S) ==
    {f \in [1..Cardinality(S) -> S] : \A i, j \in DOMAIN f : i # j => f[i] # f[j]}
PipelineOrders(S, sort) ==
    {f \in Orders(S) :
        \A i, j \in DOMAIN f :
            i < j => IF sort = "participants"
                     THEN contests[f[i]].participants >= contests[f[j]].participants
                     ELSE f[i] < f[j]}

\* $limit: the first n documents.
Limited(seq, limit) ==
    IF limit = NoLimit \/ limit >= Len(seq) THEN seq ELSE SubSeq(seq, 1, limit)

ListContests(r) ==
    \E cookie \in {NoCookie} \cup ValidCookies, q \in Queries :
        \E ord \in PipelineOrders({c \in DOMAIN contests : Matches(contests[c], q)},
                                  q.sort) :
            /\ CanStart(r)
            /\ StartReq(r, [Idle EXCEPT !.op = "listContests", !.caller = cookie.email,
                                        !.cookie = cookie.state,
                                        !.pc = "done", !.resp = "ok"])
            /\ listing' = [route |-> "contests", caller |-> cookie.email, query |-> q,
                           out |-> Limited([i \in DOMAIN ord |-> ListedContest(ord[i])],
                                           q.limit)]
            /\ HistKeep
            /\ UNCHANGED <<store, tokens>>

\* ------------------------------------------------------------- POST /jwt
\* No middleware.  The body names the email and may carry a name and a photo.
Guest == "guest@x"     \* an email no user document has at the start
NoUser == {}           \* findOne found nothing
JwtBodies ==
    [email : {"", Admin, Member, Guest}, name : {"", "Neo"}, photo : {""}]

\* updateOne({email}, {$set: fields}) on usersCollection: the first document
\* with that email takes the fields.
SetUserFields(email, fields) ==
    LET i == FindUser(email) IN
    IF i = 0 THEN users ELSE [users EXCEPT ![i] = ApplySet(@, fields)]

\* The document of a first login: role user whatever the body says.
FirstLogin(body) == NewUser(body.email, body.name, body.photo, "user")

\* The handler's local `user`: the document findOne returned, or the new one.
JwtUser(r) ==
    IF reqs[r].wu = NoUser THEN FirstLogin(reqs[r].body)
    ELSE CHOOSE u \in reqs[r].wu : TRUE

\* Validation and the first store call, findOne({email}).  An existing user
\* whose name and photo are both set gets the token at once.
JwtFind(r) ==
    \E body \in JwtBodies :
        LET i == FindUser(body.email)
            found == IF i = 0 THEN NoUser ELSE {users[i]}
            next == IF body.email = "" THEN "done"
                    ELSE IF i = 0 THEN "jwt_insert"
                    ELSE IF users[i].name = "" \/ users[i].photo = "" THEN "jwt_update"
                    ELSE "done"
        IN
        /\ CanStart(r)
        /\ StartReq(r, [Idle EXCEPT !.op = "jwt", !.caller = body.email,
                                    !.body = IF next = "done" THEN NoBody ELSE body,
                                    !.wu = IF next = "done" THEN NoUser ELSE found,
                                    !.pc = next,
                                    !.resp = IF body.email = "" THEN "email_required"
                                             ELSE IF next = "done" THEN "ok" ELSE ""])
        /\ tokens' = IF body.email # "" /\ next = "done"
                     THEN tokens \cup {SignToken(users[i])} ELSE tokens
        /\ HistKeep
        /\ UNCHANGED <<store, listing>>

\* insertOne(user), then the token is signed from the same local document.
JwtInsert(r) ==
    /\ reqs[r].pc = "jwt_insert"
    /\ users' = Append(users, JwtUser(r))
    /\ tokens' = tokens \cup {SignToken(JwtUser(r))}
    /\ Answer(r, "ok")
    /\ HistKeep
    /\ UNCHANGED <<contests, nextContestId, submissions, payments, budget, listing>>

\* updateOne({email}, {$set: {name, photo}}) with the body's values or else the
\* values read by findOne; the token is signed from the document as read.
JwtUpdate(r) ==
    /\ reqs[r].pc = "jwt_update"
    /\ users' = SetUserFields(reqs[r].body.email,
                              [name |-> OrElse(reqs[r].body.name, JwtUser(r).name),
                               photo |-> OrElse(reqs[r].body.photo, JwtUser(r).photo)])
    /\ tokens' = tokens \cup {SignToken(JwtUser(r))}
    /\ Answer(r, "ok")
    /\ HistKeep
    /\ UNCHANGED <<contests, nextContestId, submissions, payments, budget, listing>>

\* ------------------------------------------------------------- POST /users
\* No middleware.  findOne({email}); an existing user answers success at once.
UserBodies ==
    {[email |-> Guest, name |-> "Neo", photo |-> ""],
     [email |-> Guest, name |-> "Neo", photo |-> "", role |-> "admin"],
     [email |-> Member, name |-> "Neo", photo |-> "", role |-> "admin"],
     [email |-> Guest, name |-> "Neo", photo |-> "", wonContests |-> {1},
      participatedContests |-> {1}]}

PostUsersFind(r) ==
    \E body \in UserBodies :
        LET exists == FindUser(body.email) # 0 IN
        /\ CanStart(r)
        /\ StartReq(r, [Idle EXCEPT !.op = "postUsers", !.caller = body.email,
                                    !.body = IF exists THEN NoBody ELSE body,
                                    !.pc = IF exists THEN "done" ELSE "users_insert",
                                    !.resp = IF exists THEN "ok" ELSE ""])
        /\ HistKeep
        /\ UNCHANGED <<store, tokens, listing>>

\* Mutant of NewUserFrom: the body is spread last and overrides the forced
\* fields.
NewUserFromBodyLast(body) ==
    ApplySet(ApplySet(NewUser("", "", "", ""),
                      [role |-> "user", participatedContests |-> {}, wonContests |-> {}]),
             body)

\* insertOne({...req.body, role: "user", participatedContests: [], wonContests: []}).
NewUserFrom(body) ==
    ApplySet(ApplySet(NewUser("", "", "", ""), body),
             [role |-> "user", participatedContests |-> {}, wonContests |-> {}])

PostUsersInsert(r) ==
    /\ reqs[r].pc = "users_insert"
    /\ users' = Append(users, NewUserFrom(reqs[r].body))
    /\ Answer(r, "ok")
    /\ HistKeep
    /\ UNCHANGED <<contests, nextContestId, submissions, payments, budget, tokens,
                   listing>>

\* ------------------------------------------------------------- PATCH /users/role/:email
\* verifyToken, verifyAdmin (findOne the caller), then the handler.
Roles == {"user", "creator", "admin"}

SetRoleVerify(r) ==
    \E cookie \in Cookies, email \in Emails, role \in Roles :
        LET user == VerifyToken(cookie)
            resp == IF ~user.ok THEN "unauthorized"
                    ELSE IF ~IsAdmin(user.email) THEN "forbidden"
                    ELSE ""
        IN
        /\ CanStart(r)
        /\ StartReq(r, [Idle EXCEPT !.op = "setRole", !.caller = user.email,
                                    !.cookie = cookie.state,
                                    !.body = IF resp = "" THEN [email |-> email, role |-> role]
                                             ELSE NoBody,
                                    !.pc = IF resp = "" THEN "role_update" ELSE "done",
                                    !.resp = resp])
        /\ HistKeep
        /\ UNCHANGED <<store, tokens, listing>>

\* updateOne({email: req.params.email}, {$set: {role: req.body.role}}).
SetRoleUpdate(r) ==
    /\ reqs[r].pc = "role_update"
    /\ users' = SetUserFields(reqs[r].body.email, [role |-> reqs[r].body.role])
    /\ Answer(r, "ok")
    /\ HistKeep
    /\ UNCHANGED <<contests, nextContestId, submissions, payments, budget, tokens,
                   listing>>

\* ------------------------------------------------------------- PATCH /users/profile/:email
\* verifyToken; 403 unless the caller names their own email; one store call,
\* updateOne({email}, {$set: {name, photo, bio, updatedAt}}).
ProfileBodies ==
    {[name |-> "Zed", photo |-> ""], [name |-> "", photo |-> "zed.png"],
     [name |-> "Zed", photo |-> "", role |-> "admin", wonContests |-> {1}]}

\* Mutant of ProfileFields: the whole body is written.
ProfileFieldsWholeBody(body) == body

\* const {name, photo, bio} = req.body: the fields the $set is built from.
ProfileFields(body) == [name |-> body.name, photo |-> body.photo]

UpdateProfile(r) ==
    \E cookie \in Cookies, email \in Emails, body \in ProfileBodies :
        LET user == VerifyToken(cookie)
            resp == IF ~user.ok THEN "unauthorized"
                    ELSE IF user.email # email THEN "forbidden"
                    ELSE "ok"
        IN
        /\ CanStart(r)
        /\ users' = IF resp = "ok" THEN SetUserFields(email, ProfileFields(body))
                     ELSE users
        /\ StartReq(r, [Idle EXCEPT !.op = "profile", !.caller = user.email,
                                    !.cookie = cookie.state,
                                    !.pc = "done", !.resp = resp])
        /\ HistKeep
        /\ UNCHANGED <<contests, nextContestId, submissions, payments, tokens, listing>>

\* ------------------------------------------------------------- GET /users/me
\* verifyToken; one store call, findOne({email: req.user.email}).
UsersMe(r) ==
    \E cookie \in Cookies :
        LET user == VerifyToken(cookie)
            i == FindUser(user.email)
        IN
        /\ CanStart(r)
        /\ StartReq(r, [Idle EXCEPT !.op = "usersMe", !.caller = user.email,
                                    !.cookie = cookie.state, !.pc = "done",
                                    !.resp = IF user.ok THEN "ok" ELSE "unauthorized"])
        /\ listing' = IF user.ok
                      THEN [route |-> "me", caller |-> user.email, query |-> <<>>,
                            out |-> IF i = 0 THEN <<>> ELSE <<users[i]>>]
                      ELSE listing
        /\ HistKeep
        /\ UNCHANGED <<store, tokens>>

\* ------------------------------------------------------------- GET /users
\* verifyToken, verifyAdmin (findOne the caller), then find().toArray().
ListUsersVerify(r) ==
    \E cookie \in Cookies :
        LET user == VerifyToken(cookie)
            resp == IF ~user.ok THEN "unauthorized"
                    ELSE IF ~IsAdmin(user.email) THEN "forbidden"
                    ELSE ""
        IN
        /\ CanStart(r)
        /\ StartReq(r, [Idle EXCEPT !.op = "listUsers", !.caller = user.email,
                                    !.cookie = cookie.state,
                                    !.pc = IF resp = "" THEN "users_find" ELSE "done",
                                    !.resp = resp])
        /\ HistKeep
        /\ UNCHANGED <<store, tokens, listing>>

ListUsersFind(r) ==
    /\ reqs[r].pc = "users_find"
    /\ listing' = [route |-> "users", caller |-> reqs[r].caller, query |-> <<>>,
                   out |-> users]
    /\ Answer(r, "ok")
    /\ HistKeep
    /\ UNCHANGED <<store, budget, tokens>>

\* ------------------------------------------------------------- GET /admin/contests
\* verifyToken, verifyAdmin (findOne the caller), then find().toArray().
ListAllVerify(r) ==
    \E cookie \in Cookies :
        LET user == VerifyToken(cookie)
            resp == IF ~user.ok THEN "unauthorized"
                    ELSE IF ~IsAdmin(user.email) THEN "forbidden"
                    ELSE ""
        IN
        /\ CanStart(r)
        /\ StartReq(r, [Idle EXCEPT !.op = "listAll", !.caller = user.email,
                                    !.cookie = cookie.state,
                                    !.pc = IF resp = "" THEN "all_find" ELSE "done",
                                    !.resp = resp])
        /\ HistKeep
        /\ UNCHANGED <<store, tokens, listing>>

\* The documents in the store's order (by id).
AllContests ==
    LET ord == CHOOSE f \in PipelineOrders(DOMAIN contests, NoParam) : TRUE IN
    [i \in DOMAIN ord |-> [ListedContest(ord[i]) EXCEPT !.submissionsCount = 0]]

ListAllFind(r) ==
    /\ reqs[r].pc = "all_find"
    /\ listing' = [route |-> "adminContests", caller |-> reqs[r].caller,
                   query |-> <<>>, out |-> AllContests]
    /\ Answer(r, "ok")
    /\ HistKeep
    /\ UNCHANGED <<store, budget, tokens>>

\* ------------------------------------------------------------- GET /submissions
\* verifyToken; one store call, the aggregate that joins each submission of
\* the contest with its author's name and photo.
ListedSubmission(i) ==
    LET u == FindUser(submissions[i].userEmail) IN
    [id |-> i, userEmail |-> submissions[i].userEmail,
     isWinner |-> submissions[i].isWinner,
     userName |-> IF u = 0 THEN "" ELSE users[u].name,
     userPhoto |-> IF u = 0 THEN "" ELSE users[u].photo]

ListSubmissions(r) ==
    \E cookie \in Cookies, cid \in ContestArgs :
        LET user == VerifyToken(cookie)
            OfContest(i) == submissions[i].contestId = cid
            ids == SelectSeq([i \in 1..Len(submissions) |-> i], OfContest)
        IN
        /\ CanStart(r)
        /\ StartReq(r, [Idle EXCEPT !.op = "listSubmissions", !.caller = user.email,
                                    !.cookie = cookie.state, !.cid = cid, !.pc = "done",
                                    !.resp = IF user.ok THEN "ok" ELSE "unauthorized"])
        /\ listing' = IF user.ok
                      THEN [route |-> "submissions", caller |-> user.email,
                            query |-> <<cid>>,
                            out |-> [k \in DOMAIN ids |-> ListedSubmission(ids[k])]]
                      ELSE listing
        /\ HistKeep
        /\ UNCHANGED <<store, tokens>>

\* ------------------------------------------------------------- verifyToken on the other protected routes
\* The middleware answers 401 before the handler runs.
ProtectedOps ==
    {"create", "put", "delete", "adminStatus", "adminDelete", "register", "submit",
     "declareWinner"}

Reject(r) ==
    \E cookie \in Cookies, op \in ProtectedOps :
        /\ ~VerifyToken(cookie).ok
        /\ CanStart(r)
        /\ StartReq(r, [Idle EXCEPT !.op = op, !.cookie = cookie.state, !.pc = "done",
                                    !.resp = "unauthorized"])
        /\ HistKeep
        /\ UNCHANGED <<store, tokens, listing>>

\* ------------------------------------------------------------- GET /leaderboard
\* No middleware.  One store call, find({$expr: {$gt: [{$size: "$wonContests"}, 0]}}),
\* then map and sort in the handler.
BoardEntry(u) ==
    [name |-> OrElse(u.name, "Anonymous"), photo |-> OrElse(u.photo, ""),
     email |-> u.email, wins |-> Cardinality(u.wonContests)]

\* Mutant of WinsOrder: the comparator's operands are swapped.
WinsOrderAscending(a, b) == a.wins - b.wins

\* The comparator (a, b) => b.wins - a.wins: negative when a goes first.
WinsOrder(a, b) == b.wins - a.wins

\* Array.prototype.sort with that comparator; the sort is stable, so an entry
\* is preceded by the entries that compare before it and by the equal ones
\* that stood before it.
SortedByWins(seq) ==
    LET Rank(i) == 1 + Cardinality({j \in DOMAIN seq :
                          \/ WinsOrder(seq[j], seq[i]) < 0
                          \/ WinsOrder(seq[j], seq[i]) = 0 /\ j < i})
    IN [k \in DOMAIN seq |-> seq[CHOOSE i \in DOMAIN seq : Rank(i) = k]]

Leaderboard(r) ==
    LET HasWins(u) == Cardinality(u.wonContests) > 0
        found == SelectSeq(users, HasWins)
    IN
    /\ CanStart(r)
    /\ StartReq(r, [Idle EXCEPT !.op = "leaderboard", !.pc = "done", !.resp = "ok"])
    /\ listing' = [route |-> "leaderboard", caller |-> "", query |-> <<>>,
                   out |-> SortedByWins([i \in DOMAIN found |-> BoardEntry(found[i])])]
    /\ HistKeep
    /\ UNCHANGED <<store, tokens>>

\* ------------------------------------------------------------- stores with declared winners
\* Creator has created contests 1, 2 and 3; for each of them either nothing more
\* has happened, or one user has submitted an entry and Creator has declared
\* it the winner.
NoWinner == "nobody"
BoardContests == {1, 2, 3}
WinnerChoices == [BoardContests -> Emails \cup {NoWinner}]
BoardUser(u, w) ==
    [u EXCEPT !.wonContests = {c \in BoardContests : w[c] = u.email}]
BoardContest(c, w, us) ==
    IF w[c] = NoWinner
    THEN [content |-> 0, winner |-> {}, creatorEmail |-> Creator, participants |-> 0,
          status |-> "pending"]
    ELSE [content |-> 0, creatorEmail |-> Creator, participants |-> 0,
          status |-> "ended",
          winner |-> {WinnerSnapshot({u \in {us[i] : i \in 1..Len(us)} :
                                         u.email = w[c]})}]
BoardSubmissions(w) ==
    LET Declared(c) == w[c] # NoWinner
        cs == SelectSeq(<<1, 2, 3>>, Declared)
    IN [k \in DOMAIN cs |-> [contestId |-> cs[k], userEmail |-> w[cs[k]],
                             isWinner |-> TRUE]]
InitBoard ==
    \E w \in WinnerChoices :
        LET us == << NewUser(Admin, "Ada", "ada.png", "admin"),
                     NewUser(Creator, "Cy", "", "user"),
                     NewUser(Member, "", "uma.png", "user") >>
        IN
        /\ users = [i \in DOMAIN us |-> BoardUser(us[i], w)]
        /\ contests = [c \in BoardContests |-> BoardContest(c, w, us)]
        /\ nextContestId = 4
        /\ submissions = BoardSubmissions(w)
        /\ payments = <<>>
        /\ reqs = [r \in Slots |-> Idle]
        /\ budget = MaxAccessReq
        /\ okRegs = {}
        /\ lostIncs = {}
        /\ okWins = {[sid |-> k, caller |-> Creator] : k \in DOMAIN BoardSubmissions(w)}
        /\ scen = ScenOff
        /\ tokens = {SignToken(us[i]) : i \in DOMAIN us}
        /\ listing = NoListing

\* ------------------------------------------------------------- POST /payments: a write fails
\* The three writes run inside one try block whose catch answers 500 and
\* compensates nothing: a write that throws ends the request and leaves the
\* earlier writes in place.
RegisterInsertFails(r) ==
    /\ reqs[r].pc = "reg_insert"
    /\ Answer(r, "server_error")
    /\ RecordReq(r, "server_error")
    /\ UNCHANGED <<store, budget>>

RegisterIncFails(r) ==
    /\ reqs[r].pc = "reg_inc"
    /\ Answer(r, "server_error")
    /\ lostIncs' = lostIncs \cup {<<reqs[r].cid, reqs[r].caller>>}
    /\ scen' = ScenOff
    /\ UNCHANGED <<store, budget, okRegs, okWins, tokens, listing>>

RegisterTrackFails(r) ==
    /\ reqs[r].pc = "reg_track"
    /\ Answer(r, "server_error")
    /\ RecordReq(r, "server_error")
    /\ UNCHANGED <<store, budget>>

RegisterFails(r) ==
    \/ RegisterInsertFails(r) \/ RegisterIncFails(r) \/ RegisterTrackFails(r)

\* ------------------------------------------------------------- specifications
ContestOps(r) ==
    \/ CreateContest(r)
    \/ PutFind(r) \/ PutUpdate(r)
    \/ DeleteFind(r) \/ DeleteOne(r)
    \/ AdminStatusVerify(r) \/ AdminStatusUpdate(r)
    \/ AdminDeleteVerify(r) \/ AdminDeleteOne(r)

RegisterOps(r) ==
    \/ RegisterFind(r) \/ RegisterInsert(r) \/ RegisterInc(r) \/ RegisterTrack(r)

WinnerOps(r) ==
    \/ Submit(r)
    \/ WinnerFindSub(r) \/ WinnerFindContest(r) \/ WinnerCheck(r) \/ WinnerMark(r)
    \/ WinnerUser(r) \/ WinnerRead(r) \/ WinnerClose(r)

Handler(r) == ContestOps(r) \/ RegisterOps(r) \/ WinnerOps(r)

\* Every route, requests handled concurrently and interleaved at their store
\* calls.
Next == \E r \in Slots : Handler(r)
Spec == Init /\ [][Next]_vars

\* The contest lifecycle routes, concurrently.
LifecycleNext == \E r \in Slots : ContestOps(r)
LifecycleSpec == InitConc /\ [][LifecycleNext]_vars

\* Contest creation and edit with registration, concurrently.
RegisterEditOps(r) ==
    CreateContest(r) \/ PutFind(r) \/ PutUpdate(r) \/ RegisterOps(r)
RegisterNext == \E r \in Slots : RegisterEditOps(r)
RegisterSpec == InitConc /\ [][RegisterNext]_vars

\* Contest creation and registration with requests issued one after another:
\* each is answered before the next arrives.
CreateRegisterOps(r) == CreateContest(r) \/ RegisterOps(r)
RegisterSeqNext == CreateRegisterOps(1)
RegisterSeqSpec == Init /\ [][RegisterSeqNext]_vars

\* Contest creation, submission and winner declaration, concurrently.
CreateWinnerOps(r) == CreateContest(r) \/ WinnerOps(r)
WinnerNext == \E r \in Slots : CreateWinnerOps(r)
WinnerSpec == Init /\ [][WinnerNext]_vars

\* The same routes with requests issued one after another: each is answered
\* before the next arrives.
WinnerSeqNext == CreateWinnerOps(1)
WinnerSeqSpec == Init /\ [][WinnerSeqNext]_vars

\* Every route, requests issued one after another, for as long as they follow
\* the scenario recorded by scen.
OnScenario(A) == scen.k >= 0 /\ A
ScenOps(r) ==
    \/ OnScenario(CreateContest(r))
    \/ OnScenario(PutFind(r)) \/ OnScenario(PutUpdate(r))
    \/ OnScenario(DeleteFind(r)) \/ OnScenario(DeleteOne(r))
    \/ OnScenario(AdminStatusVerify(r)) \/ OnScenario(AdminStatusUpdate(r))
    \/ OnScenario(AdminDeleteVerify(r)) \/ OnScenario(AdminDeleteOne(r))
    \/ OnScenario(RegisterFind(r)) \/ OnScenario(RegisterInsert(r))
    \/ OnScenario(RegisterInc(r)) \/ OnScenario(RegisterTrack(r))
    \/ OnScenario(Submit(r))
    \/ OnScenario(WinnerFindSub(r)) \/ OnScenario(WinnerFindContest(r))
    \/ OnScenario(WinnerCheck(r)) \/ OnScenario(WinnerMark(r))
    \/ OnScenario(WinnerUser(r)) \/ OnScenario(WinnerRead(r))
    \/ OnScenario(WinnerClose(r))
ScenNext == ScenOps(1)
ScenSpec == Init /\ [][ScenNext]_vars

\* The public listing beside the routes that create contests and change or
\* remove them, from the seeded store, one request after another (the listing
\* is a single store call).
ListOps(r) ==
    \/ CreateContest(r)
    \/ AdminStatusVerify(r) \/ AdminStatusUpdate(r)
    \/ AdminDeleteVerify(r) \/ AdminDeleteOne(r)
    \/ ListContests(r)
ListNext == ListOps(1)
ListSpec == InitSeeded /\ [][ListNext]_vars

\* The two routes that create user documents, requests overlapping.
LoginOps(r) ==
    \/ JwtFind(r) \/ JwtInsert(r) \/ JwtUpdate(r)
    \/ PostUsersFind(r) \/ PostUsersInsert(r)
LoginNext == \E r \in Slots : LoginOps(r)
LoginSpec == InitConc /\ [][LoginNext]_vars

\* The routes behind verifyToken and verifyAdmin beside the route that changes
\* roles, from the seeded store, one request after another.
AccessOps(r) ==
    \/ Reject(r)
    \/ SetRoleVerify(r) \/ SetRoleUpdate(r)
    \/ UpdateProfile(r)
    \/ UsersMe(r)
    \/ ListUsersVerify(r) \/ ListUsersFind(r)
    \/ ListAllVerify(r) \/ ListAllFind(r)
    \/ ListSubmissions(r)
    \/ AdminStatusVerify(r) \/ AdminStatusUpdate(r)
    \/ AdminDeleteVerify(r) \/ AdminDeleteOne(r)
AccessNext == AccessOps(1)
AccessSpec == InitAccess /\ [][AccessNext]_vars

\* The routes that answer business-rule errors, from the seeded store, one
\* request after another.
DeclareOps(r) ==
    \/ WinnerFindSub(r) \/ WinnerFindContest(r) \/ WinnerCheck(r) \/ WinnerMark(r)
    \/ WinnerUser(r) \/ WinnerRead(r) \/ WinnerClose(r)
ErrorOps(r) ==
    \/ PutFind(r) \/ PutUpdate(r)
    \/ DeleteFind(r) \/ DeleteOne(r)
    \/ AdminStatusVerify(r) \/ AdminStatusUpdate(r)
    \/ RegisterOps(r)
    \/ DeclareOps(r)
ErrorNext == ErrorOps(1)
ErrorSpec == InitSeeded /\ [][ErrorNext]_vars

\* The routes that write user documents, from the seeded store, one request
\* after another.
UsersOps(r) ==
    \/ LoginOps(r)
    \/ SetRoleVerify(r) \/ SetRoleUpdate(r)
    \/ UpdateProfile(r)
    \/ RegisterOps(r)
    \/ Submit(r)
    \/ DeclareOps(r)
UsersNext == UsersOps(1)
UsersSpec == InitAccess /\ [][UsersNext]_vars

\* The leaderboard beside the routes that add wins, from the stores with
\* declared winners, one request after another.
BoardOps(r) ==
    \/ Leaderboard(r)
    \/ Submit(r)
    \/ DeclareOps(r)
BoardNext == BoardOps(1)
BoardSpec == InitBoard /\ [][BoardNext]_vars

\* declareWinner beside the routes that write users and contests afterwards,
\* from the seeded store, one request after another.
SnapshotOps(r) ==
    \/ DeclareOps(r)
    \/ UpdateProfile(r)
    \/ JwtFind(r) \/ JwtInsert(r) \/ JwtUpdate(r)
    \/ PutFind(r) \/ PutUpdate(r)
    \/ AdminStatusVerify(r) \/ AdminStatusUpdate(r)
SnapshotNext == SnapshotOps(1)
SnapshotSpec == InitSeeded /\ [][SnapshotNext]_vars

\* Contest creation with bodies that name the handler's own fields, beside the
\* contest edit, requests overlapping.
CreateOps(r) ==
    \/ CreateContestForced(r)
    \/ PutFind(r) \/ PutUpdate(r)
CreateNext == \E r \in Slots : CreateOps(r)
CreateSpec == InitConc /\ [][CreateNext]_vars

\* Registration with writes that may fail, from the seeded store, one request
\* after another.
FaultOps(r) ==
    \/ RegisterOps(r)
    \/ RegisterFails(r)
FaultNext == FaultOps(1)
FaultSpec == InitAccess /\ [][FaultNext]_vars

\* Registration beside the routes that set a contest's status, from the seeded
\* store, one request after another.
OpenOps(r) ==
    \/ AdminStatusVerify(r) \/ AdminStatusUpdate(r)
    \/ PutFind(r) \/ PutUpdate(r)
    \/ RegisterOps(r)
OpenNext == OpenOps(1)
OpenSpec == InitSeeded /\ [][OpenNext]_vars

\* Concurrent declareWinner requests beside user creation, from the seeded
\* store.
WonOps(r) ==
    \/ DeclareOps(r)
    \/ PostUsersFind(r) \/ PostUsersInsert(r)
WonNext == \E r \in Slots : WonOps(r)
WonSpec == InitSeeded /\ [][WonNext]_vars

\* Concurrent registrations beside logins, from the seeded store.
PaidOps(r) ==
    \/ RegisterOps(r)
    \/ JwtFind(r) \/ JwtInsert(r) \/ JwtUpdate(r)
PaidNext == \E r \in Slots : PaidOps(r)
PaidSpec == InitAccess /\ [][PaidNext]_vars

\* ------------------------------------------------------------- claims
\* The slot whose request took the step.
Stepped(r) == reqs'[r] # reqs[r]
SubIds == 1..Len(submissions)
PayIds == 1..Len(payments)
WinnersOf(cid) == {i \in SubIds : submissions[i].contestId = cid /\ submissions[i].isWinner}
PaymentsOf(cid) == {i \in PayIds : payments[i].contestId = cid}

\* C1: in every reachable state, whatever the interleaving of concurrent
\* declareWinner requests, each contest has at most one submission with
\* isWinner = true.
C1_AtMostOneWinner ==
    \A cid \in DOMAIN contests : Cardinality(WinnersOf(cid)) <= 1

\* C2: in every reachable state, whatever the interleaving of concurrent
\* register requests, there is at most one payment for each (contestId, payer
\* email) pair.
C2_AtMostOnePayment ==
    \A i, j \in PayIds :
        (payments[i].contestId = payments[j].contestId
            /\ payments[i].email = payments[j].email) => i = j

\* C3: when two register requests for the same contest and the same user ran
\* concurrently and both are answered, exactly one answered success, the other
\* the duplicate-registration conflict, and the contest's participants counter
\* is exactly 1 higher than before the two requests.
Min2(a, b) == IF a <= b THEN a ELSE b
C3_ConcurrentRegisterOnce ==
    \A r1, r2 \in Slots :
        ( /\ r1 # r2
          /\ reqs[r1].op = "register" /\ reqs[r1].pc = "done"
          /\ reqs[r2].op = "register" /\ reqs[r2].pc = "done"
          /\ r2 \in reqs[r1].ovl
          /\ reqs[r1].cid = reqs[r2].cid /\ reqs[r1].caller = reqs[r2].caller
          /\ reqs[r1].body = HasAmount /\ reqs[r2].body = HasAmount
          /\ reqs[r1].cid \in DOMAIN contests )
        => /\ {reqs[r1].resp, reqs[r2].resp} = {"ok", "already_registered"}
           /\ contests[reqs[r1].cid].participants
                = Min2(reqs[r1].p0, reqs[r2].p0) + 1

\* C4: a contest's status only ever changes pending->confirmed,
\* pending->rejected or confirmed->ended; no request makes any other change.
LegalTransitions ==
    { <<"pending", "confirmed">>, <<"pending", "rejected">>, <<"confirmed", "ended">> }
C4_LegalTransitions ==
    [][\A cid \in (DOMAIN contests) \cap (DOMAIN contests') :
          contests'[cid].status # contests[cid].status
            => <<contests[cid].status, contests'[cid].status>> \in LegalTransitions]_vars

\* C5: a contest's content changes only in a state where its status is pending
\* and only as the effect of an edit request made by its creator.
C5_ContentOnlyPendingByCreator ==
    [][\A cid \in (DOMAIN contests) \cap (DOMAIN contests') :
          contests'[cid].content # contests[cid].content
            => /\ contests[cid].status = "pending"
               /\ \E r \in Slots : /\ Stepped(r)
                                   /\ reqs[r].op = "put"
                                   /\ reqs[r].caller = contests[cid].creatorEmail]_vars

\* C6: once a register call for (C, U) has answered success, a later register
\* call with the same contest, user and a valid body answers the
\* duplicate-registration conflict, inserts no payment and leaves the contests
\* (C.participants) and the users (U.participatedContests) as they were.
C6_SecondRegisterConflict ==
    [][\A r \in Slots :
          ( /\ Stepped(r)
            /\ reqs'[r].op = "register"
            /\ reqs'[r].body = HasAmount
            /\ <<reqs'[r].cid, reqs'[r].caller>> \in okRegs )
          => /\ reqs'[r].pc = "done"
             /\ reqs'[r].resp = "already_registered"
             /\ payments' = payments
             /\ contests' = contests
             /\ users' = users]_vars

\* C6 witness: a second register call for a registered pair has answered the
\* conflict, on an existing contest whose counter the first call raised.
C6_Witness ==
    \E r \in Slots :
        /\ reqs[r].op = "register" /\ reqs[r].pc = "done"
        /\ reqs[r].resp = "already_registered"
        /\ <<reqs[r].cid, reqs[r].caller>> \in okRegs
        /\ reqs[r].cid \in DOMAIN contests
        /\ contests[reqs[r].cid].participants = 1

\* C7: once declareWinner has answered success for submission S1 of contest C,
\* a later declareWinner call by the same caller for another submission S2 of C
\* answers 'Winner already declared', S1 still has isWinner = true, S2 has
\* isWinner = false, and no step of the call changes the submissions, the
\* contests (winner snapshot) or the users (wonContests).
C7_SecondDeclareRefused ==
    [][\A r \in Slots : \A w \in okWins :
          ( /\ Stepped(r)
            /\ reqs'[r].op = "declareWinner"
            /\ reqs'[r].caller = w.caller
            /\ reqs'[r].sid \in SubIds
            /\ reqs'[r].sid # w.sid
            /\ submissions[reqs'[r].sid].contestId = submissions[w.sid].contestId )
          => /\ submissions' = submissions
             /\ contests' = contests
             /\ users' = users
             /\ submissions[w.sid].isWinner
             /\ ~submissions[reqs'[r].sid].isWinner
             /\ reqs'[r].pc = "done" => reqs'[r].resp = "already_declared"]_vars

\* C7 witness: the second call has answered 'Winner already declared' while the
\* first winner keeps its flag.
C7_Witness ==
    \E r \in Slots : \E w \in okWins :
        /\ reqs[r].op = "declareWinner" /\ reqs[r].pc = "done"
        /\ reqs[r].resp = "already_declared"
        /\ reqs[r].caller = w.caller
        /\ reqs[r].sid \in SubIds /\ reqs[r].sid # w.sid
        /\ submissions[reqs[r].sid].contestId = submissions[w.sid].contestId
        /\ submissions[w.sid].isWinner
        /\ ~submissions[reqs[r].sid].isWinner

\* C8: in every state in which no register request is in progress, each
\* existing contest's participants counter equals the number of payments that
\* reference the contest.
C8_ParticipantsMatchPayments ==
    (\A r \in Slots : ~Registering(r))
        => \A cid \in DOMAIN contests :
              contests[cid].participants = Cardinality(PaymentsOf(cid))

\* The scenario's contest, user and submission, and the states it passes
\* through, read between two requests.
ScenQuiet == \A r \in Slots : ~InFlight(r)
ScenC == contests[scen.c]
ScenU == users[FindUser(scen.u)]
ScenPrefix ==
    /\ (scen.k >= 1 /\ ScenQuiet) => scen.c \in DOMAIN contests
    /\ (scen.k = 1 /\ ScenQuiet) =>
          /\ ScenC.status = "pending" /\ ScenC.participants = 0
          /\ payments = <<>> /\ submissions = <<>>
    /\ (scen.k = 2 /\ ScenQuiet) =>
          /\ ScenC.status = "confirmed" /\ ScenC.participants = 0
    /\ (scen.k \in 3..5 /\ ScenQuiet) =>
          /\ payments = << [contestId |-> scen.c, email |-> scen.u, amount |-> 10] >>
          /\ ScenC.participants = 1
          /\ ScenU.participatedContests = {scen.c}
    /\ (scen.k = 3 /\ ScenQuiet) =>
          /\ ScenC.status = "confirmed" /\ submissions = <<>>
    /\ (scen.k = 4 /\ ScenQuiet) =>
          /\ ScenC.status = "confirmed"
          /\ submissions = << [contestId |-> scen.c, userEmail |-> scen.u,
                                isWinner |-> FALSE] >>
          /\ ScenU.wonContests = {}
    /\ (scen.k = 5 /\ ScenQuiet) =>
          /\ submissions = << [contestId |-> scen.c, userEmail |-> scen.u,
                                isWinner |-> TRUE] >>
          /\ ScenU.wonContests = {scen.c}
          /\ ScenC.status = "ended"

\* C9 as stated: run sequentially from a store without contests, the scenario
\* passes through (C pending, participants 0), (C confirmed), (one payment for
\* (C, U), C.participants = 1, U.participatedContests = {C}) and ends with
\* S.isWinner = true, U.wonContests = {C}, C.status = ended and C.winner equal to
\* U's name, email and photo.
C9_ScenarioAsStated ==
    /\ ScenPrefix
    /\ (scen.k = 5 /\ ScenQuiet) =>
          ScenC.winner = { [name |-> ScenU.name, email |-> ScenU.email,
                            photo |-> ScenU.photo] }

\* C9 amended: the same, with C.winner holding U's email and photo and U's
\* name, or the word Winner when U's name is empty.
C9_Scenario ==
    /\ ScenPrefix
    /\ (scen.k = 5 /\ ScenQuiet) =>
          ScenC.winner = { [name |-> IF ScenU.name = "" THEN "Winner" ELSE ScenU.name,
                            email |-> ScenU.email,
                            photo |-> ScenU.photo] }

\* C9 witness: the scenario has run to its end, for a user with an empty name.
C9_Witness ==
    /\ scen.k = 5 /\ ScenQuiet
    /\ ScenU.name = ""
    /\ ScenC.status = "ended"

\* C10: a contest leaves the store only by a step of a delete request of its
\* creator taken while its status is pending, or by a step of an admin delete
\* request of a principal whose stored role is admin.
C10_RemovalOnlyByRule ==
    [][\A cid \in (DOMAIN contests) \ (DOMAIN contests') :
          \E r \in Slots :
              /\ Stepped(r)
              /\ \/ /\ reqs[r].op = "delete"
                    /\ reqs[r].caller = contests[cid].creatorEmail
                    /\ contests[cid].status = "pending"
                 \/ /\ reqs[r].op = "adminDelete"
                    /\ IsAdmin(reqs[r].caller)]_vars


\* C11: every contest GET /contests returns with status pending or rejected is
\* returned to its creator or to an admin; an anonymous caller, who is
\* neither, gets only confirmed and ended contests, whatever the query.
C11_PublicListingOnly ==
    listing.route = "contests" =>
        \A i \in DOMAIN listing.out :
            listing.out[i].status \in {"pending", "rejected"} =>
                \/ listing.caller = listing.out[i].creatorEmail
                \/ IsAdmin(listing.caller)


\* C16: under any interleaving of POST /jwt and POST /users the users
\* collection holds at most one document per email, and every document these
\* routes created has role user.
C16_OneUserPerEmail ==
    /\ \A i, j \in 1..Len(users) : users[i].email = users[j].email => i = j
    /\ \A i \in 1..Len(users) : users[i].email \notin Emails => users[i].role = "user"


\* A request arrives in slot r in this step (its middleware and first store
\* call included).
Arrives(r) == CanStart(r) /\ budget' < budget

\* C12: a principal who holds a valid token with role admin but whose stored
\* role is no longer admin is answered Forbidden on every admin-gated route,
\* and the request changes nothing.
AdminGated == {"listUsers", "setRole", "listAll", "adminStatus", "adminDelete"}
Demoted(email) ==
    /\ \E t \in tokens : t.email = email /\ t.role = "admin"
    /\ \E i \in 1..Len(users) : users[i].email = email /\ users[i].role # "admin"
C12_DemotedAdminForbidden ==
    [][\A r \in Slots :
          ( /\ Arrives(r) /\ reqs'[r].op \in AdminGated
            /\ reqs'[r].cookie = "valid" /\ Demoted(reqs'[r].caller) )
          => /\ reqs'[r].pc = "done" /\ reqs'[r].resp = "forbidden"
             /\ store' = store /\ listing' = listing]_vars

C12_Witness ==
    \E r \in Slots :
        /\ reqs[r].op \in AdminGated /\ reqs[r].cookie = "valid"
        /\ reqs[r].caller = Admin /\ Demoted(Admin)
        /\ reqs[r].pc = "done" /\ reqs[r].resp = "forbidden"

\* C13: a request to a protected route that carries no token, or a token that
\* fails verification, is answered 401 and changes no collection.
ProtectedRoutes ==
    ProtectedOps \cup {"setRole", "profile", "usersMe", "listUsers", "listAll",
                       "listSubmissions"}
C13_NoTokenUnauthorized ==
    [][\A r \in Slots :
          ( /\ Arrives(r) /\ reqs'[r].op \in ProtectedRoutes
            /\ reqs'[r].cookie \in {"none", "expired", "forged"} )
          => /\ reqs'[r].pc = "done" /\ reqs'[r].resp = "unauthorized"
             /\ store' = store]_vars

C13_Witness ==
    /\ \E r \in Slots :
          /\ reqs[r].op = "setRole" /\ reqs[r].cookie = "expired"
          /\ reqs[r].pc = "done" /\ reqs[r].resp = "unauthorized"


\* C14: a register, contest edit, contest delete, admin status change or
\* declareWinner request that is answered with a business-rule error (400,
\* 403, 404) has written nothing: the answering step leaves the collections
\* as they are, and so did every earlier step of the request.
BusinessErrors ==
    {"missing_data", "already_registered", "not_found", "forbidden",
     "invalid_status", "already_declared"}
AfterWrite == {"reg_inc", "reg_track", "win_user", "win_read", "win_close"}
C14_ErrorsWriteNothing ==
    [][\A r \in Slots :
          /\ ( Stepped(r) /\ InFlight(r)' /\ reqs'[r].pc \notin AfterWrite )
             => store' = store
          /\ ( Stepped(r) /\ reqs'[r].pc = "done" /\ reqs'[r].resp \in BusinessErrors )
             => store' = store /\ reqs[r].pc \notin AfterWrite]_vars

C14_Witness ==
    \E r \in Slots :
        /\ reqs[r].op = "declareWinner" /\ reqs[r].pc = "done"
        /\ reqs[r].resp = "already_declared"
        /\ okWins # {}


\* C15: a winner flag is set, a contest is moved to ended and a winner
\* snapshot is attached only by a step of a declareWinner request whose caller
\* is the creator of the submission's contest; a declareWinner request of
\* anyone else for an existing submission of an existing contest is answered
\* Forbidden.
DeclaresFor(r, cid) ==
    /\ Stepped(r) /\ reqs[r].op = "declareWinner"
    /\ reqs[r].sid \in SubIds /\ submissions[reqs[r].sid].contestId = cid
    /\ cid \in DOMAIN contests /\ reqs[r].caller = contests[cid].creatorEmail
C15_OnlyCreatorDeclares ==
    [][/\ \A i \in SubIds :
             ( submissions'[i].isWinner /\ ~submissions[i].isWinner )
             => \E r \in Slots : DeclaresFor(r, submissions[i].contestId)
       /\ \A c \in DOMAIN contests \cap DOMAIN contests' :
             ( \/ contests'[c].status = "ended" /\ contests[c].status # "ended"
               \/ contests'[c].winner # contests[c].winner )
             => \E r \in Slots : DeclaresFor(r, c)
       /\ \A r \in Slots :
             ( /\ Stepped(r) /\ reqs'[r].op = "declareWinner" /\ reqs'[r].pc = "done"
               /\ reqs'[r].sid \in SubIds
               /\ submissions[reqs'[r].sid].contestId \in DOMAIN contests
               /\ contests[submissions[reqs'[r].sid].contestId].creatorEmail
                     # reqs'[r].caller )
             => reqs'[r].resp = "forbidden"]_vars


\* C17: a user's role changes only in the write of a PATCH /users/role/:email
\* request whose caller's stored role is admin; login, registration of a user,
\* profile update, register, submit and declareWinner change no role.
StoredAdmin(email) ==
    \E k \in 1..Len(users) : users[k].email = email /\ users[k].role = "admin"
C17_RoleOnlyByAdmin ==
    [][\A i \in 1..Len(users) :
          users'[i].role # users[i].role
          => \E r \in Slots :
                /\ Stepped(r) /\ reqs[r].op = "setRole" /\ reqs[r].pc = "role_update"
                /\ reqs[r].body.email = users[i].email
                /\ users'[i].role = reqs[r].body.role
                /\ StoredAdmin(reqs[r].caller)]_vars

C17_Witness ==
    /\ \E i \in 1..Len(users) : users[i].email = Creator /\ users[i].role = "admin"
    /\ \E r \in Slots : reqs[r].op = "setRole" /\ reqs[r].pc = "done"
                        /\ reqs[r].resp = "ok" /\ reqs[r].caller = Admin


\* C18: the leaderboard holds exactly the users whose wonContests is not
\* empty, each with wins equal to the size of that set, in order of
\* non-increasing wins; with Admin at 2 wins, Creator at 0 and Member at 1 it
\* is [Admin, Member].
Winning == {i \in 1..Len(users) : users[i].wonContests # {}}
WinsOf(email) == Cardinality(users[FindUser(email)].wonContests)
C18_Leaderboard ==
    [][\A r \in Slots :
          ( Arrives(r) /\ reqs'[r].op = "leaderboard" )
          => LET out == listing'.out IN
             /\ listing'.route = "leaderboard"
             /\ Len(out) = Cardinality(Winning)
             /\ \A i \in Winning :
                   \E k \in DOMAIN out :
                       /\ out[k].email = users[i].email
                       /\ out[k].wins = Cardinality(users[i].wonContests)
             /\ \A j, k \in DOMAIN out : j < k => out[j].wins >= out[k].wins
             /\ ( WinsOf(Admin) = 2 /\ WinsOf(Creator) = 0 /\ WinsOf(Member) = 1 )
                => [k \in DOMAIN out |-> out[k].email] = <<Admin, Member>>]_vars

C18_Witness ==
    /\ listing.route = "leaderboard"
    /\ [k \in DOMAIN listing.out |-> listing.out[k].email] = <<Admin, Member>>
    /\ [k \in DOMAIN listing.out |-> listing.out[k].wins] = <<2, 1>>
    /\ WinsOf(Creator) = 0


\* C19: once a contest has a winner snapshot, no request issued afterwards
\* changes it; a profile update of the winning user changes the user document
\* and leaves the snapshot as it was at declaration.
C19_SnapshotFrozen ==
    [][\A c \in DOMAIN contests :
          contests[c].winner # {}
          => c \in DOMAIN contests' /\ contests'[c].winner = contests[c].winner]_vars

C19_Witness ==
    \E c \in DOMAIN contests :
        /\ contests[c].winner = {[name |-> "Ada", email |-> Admin, photo |-> "ada.png"]}
        /\ users[FindUser(Admin)].name = "Zed"
        /\ reqs[1].op = "profile" /\ reqs[1].resp = "ok"


\* C20: every contest POST /contests inserts has status pending, participants
\* 0 and the caller's email as creatorEmail, whatever the body says about
\* these fields.
C20_CreateForcesFields ==
    [][\A c \in DOMAIN contests' \ DOMAIN contests :
          \E r \in Slots :
              /\ Arrives(r) /\ reqs'[r].op = "create"
              /\ contests'[c].status = "pending"
              /\ contests'[c].participants = 0
              /\ contests'[c].creatorEmail = reqs'[r].caller]_vars

C20_Witness ==
    \E c \in DOMAIN contests, r \in Slots :
        /\ contests[c].content = 2
        /\ reqs[r].op = "create" /\ reqs[r].caller = Creator
        /\ contests[c].creatorEmail = Creator
        /\ contests[c].status = "pending" /\ contests[c].participants = 0


\* C21: a profile update of an authenticated caller changes a user document
\* only when it is answered success, and then only the name and photo of the
\* caller's own document; for another user's email it is answered Forbidden
\* and no user document changes.
SameButProfile(u, v) ==
    \A f \in DOMAIN u \ {"name", "photo"} : v[f] = u[f]
C21_ProfileOnlyOwn ==
    [][\A r \in Slots :
          ( Arrives(r) /\ reqs'[r].op = "profile" /\ reqs'[r].cookie = "valid" )
          => /\ reqs'[r].pc = "done" /\ reqs'[r].resp \in {"ok", "forbidden"}
             /\ reqs'[r].resp = "forbidden" => users' = users
             /\ Len(users') = Len(users)
             /\ \A i \in 1..Len(users) :
                   users'[i] # users[i]
                   => /\ reqs'[r].resp = "ok"
                      /\ users[i].email = reqs'[r].caller
                      /\ DOMAIN users'[i] = DOMAIN users[i]
                      /\ SameButProfile(users[i], users'[i])]_vars

C21_Witness ==
    /\ reqs[1].op = "profile" /\ reqs[1].resp = "ok" /\ reqs[1].caller = Member
    /\ users[FindUser(Member)].name = "Zed"
    /\ users[FindUser(Member)].role = "user"
    /\ users[FindUser(Admin)].name = "Ada"


\* C22: every declareWinner request of an authenticated caller that has ended
\* has one of the outcomes Ok, NotFound, Forbidden, AlreadyDecided, also when
\* the submission's contest does not exist.
DeclareOutcomes == {"ok", "not_found", "forbidden", "already_declared"}
C22_DeclareOutcomes ==
    \A r \in Slots :
        ( reqs[r].op = "declareWinner" /\ reqs[r].cookie = "valid"
          /\ reqs[r].pc = "done" )
        => reqs[r].resp \in DeclareOutcomes


\* C23: when the $inc of a register call fails after its payment was inserted,
\* the call is answered 500 and its payment stays with nothing else written;
\* every later register call for the same contest and caller is answered the
\* duplicate conflict and writes nothing; and between requests each contest's
\* participants counter is its number of payments less the calls whose $inc
\* failed.
LostIncsOf(cid) == {p \in lostIncs : p[1] = cid}
C23_FailedIncStays ==
    [][/\ \A r \in Slots :
            ( Stepped(r) /\ reqs[r].pc = "reg_inc"
              /\ reqs'[r].resp = "server_error" )
            => /\ reqs'[r].pc = "done"
               /\ store' = store
               /\ \E i \in PayIds : /\ payments[i].contestId = reqs[r].cid
                                    /\ payments[i].email = reqs[r].caller
       /\ \A r \in Slots :
            ( Arrives(r) /\ reqs'[r].op = "register"
              /\ reqs'[r].body = HasAmount
              /\ <<reqs'[r].cid, reqs'[r].caller>> \in lostIncs )
            => /\ reqs'[r].pc = "done"
               /\ reqs'[r].resp = "already_registered"
               /\ store' = store
       /\ (\A r \in Slots : ~InFlight(r))
            => \A cid \in DOMAIN contests :
                  contests[cid].participants
                    = Cardinality(PaymentsOf(cid)) - Cardinality(LostIncsOf(cid))]_vars
C23_Witness ==
    /\ <<2, Admin>> \in lostIncs
    /\ reqs[1].op = "register" /\ reqs[1].cid = 2 /\ reqs[1].caller = Admin
    /\ reqs[1].resp = "already_registered"
    /\ Cardinality(PaymentsOf(2)) = 1
    /\ contests[2].participants = 0


\* C24: register never looks at the contest: a call that carries contestId and
\* amount and finds no payment of the caller for that contest is not refused,
\* inserts its payment and is answered success, whatever the contest's status
\* and whether or not the contest exists; when no contest has that id the
\* increment changes no counter.
C24_RegisterIgnoresContest ==
    [][\A r \in Slots :
         /\ ( Arrives(r) /\ reqs'[r].op = "register"
              /\ reqs'[r].cid # MissingId /\ reqs'[r].body = HasAmount
              /\ ~AlreadyPaid(reqs'[r].cid, reqs'[r].caller) )
            => reqs'[r].pc = "reg_insert"
         /\ ( Stepped(r) /\ reqs[r].pc = "reg_insert" )
            => /\ Len(payments') = Len(payments) + 1
               /\ payments'[Len(payments')].contestId = reqs[r].cid
               /\ payments'[Len(payments')].email = reqs[r].caller
               /\ reqs'[r].pc = "reg_inc"
         /\ ( Stepped(r) /\ reqs[r].pc = "reg_inc" )
            => /\ reqs'[r].pc = "reg_track"
               /\ reqs[r].cid \notin DOMAIN contests => contests' = contests
         /\ ( Stepped(r) /\ reqs[r].pc = "reg_track" )
            => reqs'[r].pc = "done" /\ reqs'[r].resp = "ok"]_vars
C24_Witness ==
    /\ reqs[1].op = "register" /\ reqs[1].resp = "ok" /\ reqs[1].cid = UnknownId
    /\ \E i \in PayIds : payments[i].contestId = UnknownId
    /\ \E i \in PayIds : /\ payments[i].contestId = 2
                         /\ contests[2].status = "rejected"
                         /\ contests[2].participants = 1


\* C25: when a declareWinner call for submission S of contest C is answered
\* success, S is the only submission of C with isWinner = true, also when
\* another submission of C was flagged while the call was in progress.
C25_DeclareClearsOthers ==
    [][\A r \in Slots :
         ( InFlight(r) /\ reqs[r].op = "declareWinner"
           /\ reqs'[r].pc = "done" /\ reqs'[r].resp = "ok" )
         => \A i \in 1..Len(submissions') :
               ( submissions'[i].contestId = submissions'[reqs[r].sid].contestId
                 /\ submissions'[i].isWinner )
               => i = reqs[r].sid]_vars


\* C26: in every reachable state, the intermediate states of concurrent
\* declareWinner requests included, every contest id in a user's wonContests
\* is the contest of a submission of that user's email with isWinner = true.
C26_WonHasWinningSubmission ==
    \A u \in 1..Len(users) :
        \A cid \in users[u].wonContests :
            \E i \in SubIds : /\ submissions[i].userEmail = users[u].email
                              /\ submissions[i].contestId = cid
                              /\ submissions[i].isWinner
C26_Witness ==
    /\ \E r \in Slots : reqs[r].op = "declareWinner" /\ reqs[r].pc = "win_read"
    /\ 1 \in users[FindUser(Member)].wonContests
    /\ 1 \in users[FindUser(Admin)].wonContests
    /\ FindUser(Guest) # 0


\* C27: in every reachable state a contest whose status is ended carries a
\* winner snapshot, and some submission of that contest has isWinner = true
\* and the snapshot's email as its userEmail.
C27_EndedHasWinner ==
    \A cid \in DOMAIN contests :
        contests[cid].status = "ended"
        => /\ contests[cid].winner # {}
           /\ \A w \in contests[cid].winner :
                 \E i \in WinnersOf(cid) : submissions[i].userEmail = w.email

\* C28: no step changes the creatorEmail of an existing contest.
C28_CreatorEmailFixed ==
    [][\A cid \in DOMAIN contests :
         cid \in DOMAIN contests'
         => contests'[cid].creatorEmail = contests[cid].creatorEmail]_vars


\* C29: in every reachable state, the intermediate states of register
\* included, every contest id in a user's participatedContests is the
\* contestId of a payment whose email is that user's email.
C29_ParticipatedHasPayment ==
    \A u \in 1..Len(users) :
        \A cid \in users[u].participatedContests :
            \E i \in PayIds : /\ payments[i].contestId = cid
                              /\ payments[i].email = users[u].email
C29_Witness ==
    /\ \E r \in Slots : /\ reqs[r].op = "register" /\ reqs[r].pc = "reg_track"
                        /\ reqs[r].caller = Admin /\ reqs[r].cid = 2
    /\ users[FindUser(Member)].participatedContests = {1, 2}

====
